---- MODULE Spec2Model ----
(***************************************************************************)
(* A model of script/trim_includes.py: the include block locator, the      *)
(* compile oracle, the necessity prover (determine_needed), the rewriter   *)
(* with its repair loop (rebuild_file, process_file) and the driver loop   *)
(* of main.                                                                *)
(*                                                                         *)
(* A file's content is a sequence of tokens.  The token NL is the line     *)
(* terminator; a token of IncTokens stands for the text of one include     *)
(* directive (`#include <a.h>`), the token "x" for a piece of other code,   *)
(* the token WS for white space.                                           *)
(* A line is the sequence of tokens that splitlines(keepends=True) cuts    *)
(* out of the content: it ends with NL, except possibly the last line of a *)
(* file.  Python indexes lines from 0, the model from 1: start, end and    *)
(* idx are the source's values plus one.                                   *)
(***************************************************************************)
EXTENDS Naturals, Sequences, FiniteSets

\* ------------------------------------------------------------------ bounds
MaxLen == 3      \* lines of an input file
MaxFiles == 2    \* entries of the file list (--file may repeat a path)

NL == "nl"                       \* the line terminator
WS == " "                        \* a run of spaces
IncTokens == {"a", "b"}          \* the texts of two include directives
Texts == IncTokens \cup {"x"}    \* "x": a piece of other code
Paths == {"f.c"}

VARIABLES
  files,            \* main: the list collect_files returned
  fix,              \* args.fix
  compilerMissing,  \* the executable args.compiler cannot be started
  disk,             \* path -> content of the source file on disk
  passed, failed,   \* the compiler's verdicts given so far (it is deterministic)
  tmp,              \* live temporary files: "c" (write_temp), "o" (compile_check)
  pc,               \* position of the run
  fi,               \* main: index of the file the loop is at
  ok,               \* main: ok
  exit,             \* main's return value (0 or 1), 2 while main has not returned
  input,            \* process_file: what path.read_text() returned
  lines,            \* process_file: lines
  needed,           \* process_file: needed
  ti,               \* determine_needed: index of the include under trial
  keep_set,         \* process_file: keep_set
  ri,               \* process_file: index into removed of the repair loop
  candidate_lines,  \* process_file: candidate_lines
  new_lines,        \* process_file: new_lines
  writes,           \* number of path.write_text calls of this process_file call
  ncompiles,        \* number of subprocess.run calls of this process_file call
  results,          \* the values process_file returned, one per file processed
  outcome           \* the branch the last process_file call ended in

vars == <<files, fix, compilerMissing, disk, passed, failed, tmp, pc, fi, ok,
          exit, input, lines, needed, ti, keep_set, ri, candidate_lines, new_lines,
          writes, ncompiles, results, outcome>>

\* ------------------------------------------------------------ text <-> lines
RECURSIVE SplitFrom(_, _, _)
SplitFrom(text, i, cur) ==
  IF i > Len(text) THEN (IF cur = <<>> THEN <<>> ELSE <<cur>>)
  ELSE IF text[i] = NL THEN <<Append(cur, NL)>> \o SplitFrom(text, i + 1, <<>>)
  ELSE SplitFrom(text, i + 1, Append(cur, text[i]))

\* str.splitlines(keepends=True)
SplitLines(text) == SplitFrom(text, 1, <<>>)

\* "".join(lines), also what writelines puts in a file
RECURSIVE Join(_)
Join(ls) == IF ls = <<>> THEN <<>> ELSE Head(ls) \o Join(Tail(ls))

\* INCLUDE_RE.match(line): ^\s*#\s*include..., anchored at the start of the line
IsInclude(line) ==
  \E i \in 1..Len(line) : line[i] \in IncTokens /\ \A j \in 1..(i - 1) : line[j] = WS

\* not line.strip()
IsBlank(line) == \A i \in 1..Len(line) : line[i] \in {NL, WS}

\* text.endswith("\n")
EndsWithNL(text) == Len(text) > 0 /\ text[Len(text)] = NL

\* ------------------------------------------------------ find_include_block
HasBlock(ls) == \E i \in 1..Len(ls) : IsInclude(ls[i])

BlockStart(ls) ==
  CHOOSE i \in 1..Len(ls) : IsInclude(ls[i]) /\ \A j \in 1..(i - 1) : ~IsInclude(ls[j])

RECURSIVE ScanEnd(_, _)
ScanEnd(ls, e) ==
  IF e <= Len(ls) /\ (IsInclude(ls[e]) \/ IsBlank(ls[e])) THEN ScanEnd(ls, e + 1) ELSE e

BlockEnd(ls) == ScanEnd(ls, BlockStart(ls))

RECURSIVE CollectIncludes(_, _, _)
CollectIncludes(ls, i, e) ==
  IF i >= e THEN <<>>
  ELSE IF IsInclude(ls[i]) THEN <<[idx |-> i, text |-> ls[i]]>> \o CollectIncludes(ls, i + 1, e)
  ELSE CollectIncludes(ls, i + 1, e)

IncludeBlock(ls) == CollectIncludes(ls, BlockStart(ls), BlockEnd(ls))

\* ------------------------------------------------------- determine_needed
\* [ln for i, ln in enumerate(lines) if i != inc.idx]
Trimmed(ls, idx) == SubSeq(ls, 1, idx - 1) \o SubSeq(ls, idx + 1, Len(ls))

\* faulty variant: the test of `ok` inverted
NeededAfterInverted(nd, text, compiled) == IF compiled THEN nd \cup {text} ELSE nd

\* if not ok: needed.add(inc.text)
NeededAfter(nd, text, compiled) == IF ~compiled THEN nd \cup {text} ELSE nd

\* faulty variant: a failed baseline is not skipped
NeverSkip(baseline_ok) == FALSE

\* if not baseline_ok: return set(), False   /   if not baseline_ok: ... return False
SkipOnBaselineFailure(baseline_ok) == ~baseline_ok

\* ----------------------------------------------------------- rebuild_file
\* inc.text if inc.text.endswith("\n") else inc.text + "\n"
Terminated(text) == IF EndsWithNL(text) THEN text ELSE Append(text, NL)

RECURSIVE BuildBlock(_, _, _, _)
BuildBlock(block, i, keep_texts, seen) ==
  IF i > Len(block) THEN <<>>
  ELSE IF block[i].text \in keep_texts /\ block[i].text \notin seen
       THEN <<Terminated(block[i].text)>>
            \o BuildBlock(block, i + 1, keep_texts, seen \cup {block[i].text})
       ELSE BuildBlock(block, i + 1, keep_texts, seen)

rebuild_file(ls, start, end, include_block, keep_texts) ==
  LET block == BuildBlock(include_block, 1, keep_texts, {})
      new_block == IF block # <<>> /\ (end > Len(ls) \/ ~IsBlank(ls[end]))
                   THEN Append(block, <<NL>>) ELSE block
  IN SubSeq(ls, 1, start - 1) \o new_block \o SubSeq(ls, end, Len(ls))

Rebuild(ls, keep_texts) ==
  rebuild_file(ls, BlockStart(ls), BlockEnd(ls), IncludeBlock(ls), keep_texts)

\* ----------------------------------------------------------- process_file
\* kept = [inc for inc in include_block if inc.text in needed]
Kept(ls, nd) == SelectSeq(IncludeBlock(ls), LAMBDA inc : inc.text \in nd)

\* removed = [inc for inc in include_block if inc.text not in needed]
Removed(ls, nd) == SelectSeq(IncludeBlock(ls), LAMBDA inc : inc.text \notin nd)

\* keep_set = set(inc.text for inc in kept)
KeepSetOf(ls, nd) == {Kept(ls, nd)[i].text : i \in 1..Len(Kept(ls, nd))}

\* faulty variant: the block is rebuilt from needed, not from the repaired keep_set
NewLinesFromNeeded == Rebuild(lines, needed)

\* new_lines = rebuild_file(lines, start, end, include_block, keep_set)
NewLines == Rebuild(lines, keep_set)

\* faulty variant: the file is written even when nothing changed
AlwaysWrite(nl, ls) == TRUE

\* if new_lines != lines:
ShouldWrite(nl, ls) == nl # ls

\* ------------------------------------------------------------ the compiler
\* subprocess.run(cmd, ...): raises when the executable cannot be started,
\* otherwise the exit status is a function of the content compiled.
Outcomes(text) ==
  IF compilerMissing THEN {"crash"}
  ELSE IF text \in passed THEN {"pass"}
  ELSE IF text \in failed THEN {"fail"}
  ELSE {"pass", "fail"}

\* write_temp, compile_check and the caller's os.unlink: both temporary files
\* are created before subprocess.run and unlinked after it returns.
TmpAfter(r) == IF r = "crash" THEN tmp \cup {"c", "o"} ELSE (tmp \cup {"c", "o"}) \ {"c", "o"}

Compile(text, r) ==
  /\ r \in Outcomes(text)
  /\ passed' = IF r = "pass" THEN passed \cup {text} ELSE passed
  /\ failed' = IF r = "fail" THEN failed \cup {text} ELSE failed
  /\ tmp' = TmpAfter(r)
  /\ ncompiles' = ncompiles + 1

\* the exception leaves process_file and main
Raise ==
  /\ pc' = "crashed"
  /\ UNCHANGED <<files, fix, compilerMissing, disk, fi, ok, exit, input, lines, needed, ti,
                 ri, new_lines, writes, results, outcome>>

\* process_file returns r; main: ok = process_file(...) and ok
Return(r, how) ==
  /\ results' = Append(results, r)
  /\ ok' = (r /\ ok)
  /\ fi' = fi + 1
  /\ outcome' = how
  /\ pc' = "main"

\* ------------------------------------------------------------------ inputs
FullLines == {<<t, NL>> : t \in Texts \cup {WS}} \cup {<<NL>>}
LastLines == FullLines \cup {<<t>> : t \in Texts \cup {WS}}

LineSeqs(n) ==
  IF n = 0 THEN {<<>>}
  ELSE {Append(p, l) : p \in [1..(n - 1) -> FullLines], l \in LastLines}

InputFiles == UNION {{Join(ls) : ls \in LineSeqs(n)} : n \in 0..MaxLen}

FileLists == UNION {[1..n -> Paths] : n \in 0..MaxFiles}

Init ==
  /\ files \in FileLists
  /\ fix \in BOOLEAN
  /\ compilerMissing \in BOOLEAN
  /\ disk \in [Paths -> InputFiles]
  /\ passed = {}
  /\ failed = {}
  /\ tmp = {}
  /\ pc = "start"
  /\ fi = 1
  /\ ok = TRUE
  /\ exit = 2
  /\ input = <<>>
  /\ lines = <<>>
  /\ needed = {}
  /\ ti = 1
  /\ keep_set = {}
  /\ ri = 1
  /\ candidate_lines = <<>>
  /\ new_lines = <<>>
  /\ writes = 0
  /\ ncompiles = 0
  /\ results = <<>>
  /\ outcome = "none"

\* ----------------------------------------------------------------- actions
\* main: files = collect_files(...); if not files: return 1; ok = True
MainStart ==
  /\ pc = "start"
  /\ IF files = <<>> THEN pc' = "done" /\ exit' = 1 ELSE pc' = "main" /\ exit' = exit
  /\ UNCHANGED <<files, fix, compilerMissing, disk, passed, failed, tmp, fi, ok, input, lines,
                 needed, ti, keep_set, ri, candidate_lines, new_lines, writes,
                 ncompiles, results, outcome>>

\* main: the loop takes the next path; process_file reads it and looks for the block
StartFile ==
  /\ pc = "main"
  /\ fi <= Len(files)
  /\ input' = disk[files[fi]]
  /\ LET ls == SplitLines(disk[files[fi]]) IN
       /\ lines' = ls
       /\ IF ~HasBlock(ls)
          THEN Return(TRUE, "skip")
          ELSE pc' = "baseline" /\ UNCHANGED <<results, ok, fi, outcome>>
  /\ writes' = 0
  /\ ncompiles' = 0
  /\ UNCHANGED <<files, fix, compilerMissing, disk, passed, failed, tmp, exit, needed,
                 ti, keep_set, ri, candidate_lines, new_lines>>

\* determine_needed: the baseline compilation
Baseline ==
  /\ pc = "baseline"
  /\ \E r \in {"pass", "fail", "crash"} :
       /\ Compile(Join(lines), r)
       /\ IF r = "crash" THEN Raise /\ UNCHANGED <<keep_set, candidate_lines>>
          ELSE /\ IF SkipOnBaselineFailure(r = "pass")
                  THEN Return(FALSE, "baseline")
                  ELSE pc' = "trial" /\ UNCHANGED <<results, ok, fi, outcome>>
               /\ needed' = {}
               /\ ti' = 1
               /\ UNCHANGED <<files, fix, compilerMissing, disk, exit, input, lines, keep_set,
                              ri, candidate_lines, new_lines, writes>>

\* determine_needed: one pass of `for inc in include_block`
Trial ==
  /\ pc = "trial"
  /\ ti <= Len(IncludeBlock(lines))
  /\ LET inc == IncludeBlock(lines)[ti] IN
     \E r \in {"pass", "fail", "crash"} :
       /\ Compile(Join(Trimmed(lines, inc.idx)), r)
       /\ IF r = "crash" THEN Raise /\ UNCHANGED <<keep_set, candidate_lines>>
          ELSE /\ needed' = NeededAfter(needed, inc.text, r = "pass")
               /\ ti' = ti + 1
               /\ UNCHANGED <<files, fix, compilerMissing, disk, pc, fi, ok, exit, input, lines,
                              keep_set, ri, candidate_lines, new_lines, writes, results,
                              outcome>>

\* determine_needed returns; process_file computes kept, removed and keep_set,
\* and in dry-run mode prints the classification and returns
Classify ==
  /\ pc = "trial"
  /\ ti > Len(IncludeBlock(lines))
  /\ keep_set' = KeepSetOf(lines, needed)
  /\ IF fix THEN pc' = "candidate" /\ UNCHANGED <<results, ok, fi, outcome>>
     ELSE Return(TRUE, "check")
  /\ UNCHANGED <<files, fix, compilerMissing, disk, passed, failed, tmp, exit, input, lines,
                 needed, ti, ri, candidate_lines, new_lines, writes, ncompiles>>

\* process_file: the reduced block is rebuilt and compiled
Candidate ==
  /\ pc = "candidate"
  /\ LET cand == Rebuild(lines, keep_set) IN
     \E r \in {"pass", "fail", "crash"} :
       /\ Compile(Join(cand), r)
       /\ candidate_lines' = cand
       /\ IF r = "crash" THEN Raise /\ UNCHANGED keep_set
          ELSE /\ pc' = IF r = "pass" THEN "commit" ELSE "repair"
               /\ ri' = 1
               /\ UNCHANGED <<files, fix, compilerMissing, disk, fi, ok, exit, input, lines,
                              needed, ti, keep_set, new_lines, writes, results, outcome>>

\* process_file: one pass of `for inc in removed` of the repair loop
Repair ==
  /\ pc = "repair"
  /\ ri <= Len(Removed(lines, needed))
  /\ LET ks == keep_set \cup {Removed(lines, needed)[ri].text}
         cand == Rebuild(lines, ks)
     IN \E r \in {"pass", "fail", "crash"} :
          /\ Compile(Join(cand), r)
          /\ keep_set' = ks
          /\ candidate_lines' = cand
          /\ IF r = "crash" THEN Raise
             ELSE /\ pc' = IF r = "pass" THEN "commit" ELSE "repair"
                  /\ ri' = IF r = "pass" THEN ri ELSE ri + 1
                  /\ UNCHANGED <<files, fix, compilerMissing, disk, fi, ok, exit, input, lines,
                                 needed, ti, new_lines, writes, results, outcome>>

\* process_file: the else clause of the repair loop (no candidate compiled)
RepairExhausted ==
  /\ pc = "repair"
  /\ ri > Len(Removed(lines, needed))
  /\ Return(FALSE, "exhausted")
  /\ UNCHANGED <<files, fix, compilerMissing, disk, passed, failed, tmp, exit, input, lines,
                 needed, ti, keep_set, ri, candidate_lines, new_lines, writes, ncompiles>>

\* process_file: new_lines is built and written when it differs from lines
Commit ==
  /\ pc = "commit"
  /\ new_lines' = NewLines
  /\ IF ShouldWrite(NewLines, lines)
     THEN /\ disk' = [disk EXCEPT ![files[fi]] = Join(NewLines)]
          /\ writes' = writes + 1
          /\ Return(TRUE, "fix")
     ELSE /\ UNCHANGED <<disk, writes>>
          /\ Return(TRUE, "noop")
  /\ UNCHANGED <<files, fix, compilerMissing, passed, failed, tmp, exit, input, lines, needed,
                 ti, keep_set, ri, candidate_lines, ncompiles>>

\* main: the loop is over; return 0 if ok else 1
Finish ==
  /\ pc = "main"
  /\ fi > Len(files)
  /\ pc' = "done"
  /\ exit' = IF ok THEN 0 ELSE 1
  /\ UNCHANGED <<files, fix, compilerMissing, disk, passed, failed, tmp, fi, ok, input, lines,
                 needed, ti, keep_set, ri, candidate_lines, new_lines, writes,
                 ncompiles, results, outcome>>

Next ==
  \/ MainStart
  \/ StartFile
  \/ Baseline
  \/ Trial
  \/ Classify
  \/ Candidate
  \/ Repair
  \/ RepairExhausted
  \/ Commit
  \/ Finish

Spec == Init /\ [][Next]_vars

\* ------------------------------------------------------- state descriptions
InProcess == pc \in {"baseline", "trial", "candidate", "repair", "commit"}

\* the last process_file call has returned (to the loop of main)
Returned == pc \in {"main", "done"} /\ Len(results) > 0

\* process_file has read a file whose processing the state variables describe
HasRead == InProcess \/ pc = "crashed" \/ Returned

LastResult == results[Len(results)]

\* the path of the file the state variables describe
CurPath == files[IF pc \in {"main", "done"} THEN fi - 1 ELSE fi]

\* determine_needed has tried every include of the block
Classified ==
  \/ pc = "trial" /\ ti > Len(IncludeBlock(lines))
  \/ pc \in {"candidate", "repair", "commit"}
  \/ Returned /\ outcome \in {"check", "fix", "noop", "exhausted"}

\* candidate_lines holds rebuild_file(lines, start, end, include_block, keep_set)
Rebuilt == pc \in {"repair", "commit"}

Range(seq) == {seq[i] : i \in 1..Len(seq)}

CandidateFails(inc) == Join(Trimmed(lines, inc.idx)) \in failed
CandidatePasses(inc) == Join(Trimmed(lines, inc.idx)) \in passed

\* the lines rebuild_file put in place of the block: candidate_lines between the
\* untouched prefix lines[:start] and the untouched suffix lines[end:]
RebuiltRegion ==
  SubSeq(candidate_lines, BlockStart(lines),
         Len(candidate_lines) - (Len(lines) - BlockEnd(lines) + 1))

RebuiltIncludes == SelectSeq(RebuiltRegion, IsInclude)

\* the texts of the block in keep_set, each at its first appearance
RECURSIVE FirstAppearances(_, _)
FirstAppearances(block, keep_texts) ==
  IF block = <<>> THEN <<>>
  ELSE LET n == Len(block)
           t == block[n].text
           before == FirstAppearances(SubSeq(block, 1, n - 1), keep_texts)
       IN IF t \in keep_texts /\ \A j \in 1..(n - 1) : block[j].text # t
          THEN Append(before, t) ELSE before

\* ------------------------------------------------------------------ claims

\* C1: in rewrite mode, when the file has an include block and its baseline
\* compiles, process_file ends either reporting success with a content on disk
\* that the compiler accepts, or reporting failure with the file as it was read.
C1_FixEndsCompilingOrUntouched ==
  (fix /\ Returned /\ HasBlock(lines) /\ input \in passed) =>
     \/ LastResult /\ disk[CurPath] \in passed
     \/ ~LastResult /\ disk[CurPath] = input

\* C1 witness: each of two includes was removable alone, the block without
\* both and the block with the first alone failed, the repair loop restored
\* both and the result was written.
C1_Witness ==
  /\ fix /\ Returned /\ outcome = "fix" /\ input \in passed
  /\ needed = {} /\ keep_set = {<<"a", NL>>, <<"b", NL>>}
  /\ disk[CurPath] # input /\ disk[CurPath] \in passed

\* C2: when the baseline of a file with an include block fails to compile, the
\* baseline is the only compiler invocation, needed is empty, process_file
\* returns failure and the file on disk is what was read (both modes).
C2_BaselineFailureSkips ==
  (Returned /\ HasBlock(lines) /\ input \in failed) =>
     /\ ncompiles = 1
     /\ needed = {}
     /\ ~LastResult
     /\ disk[CurPath] = input

\* C2 witness: a file with two includes whose baseline failed.
C2_Witness ==
  /\ Returned /\ outcome = "baseline" /\ input \in failed
  /\ Len(IncludeBlock(lines)) >= 2

\* C3: in rewrite mode, a process_file call on the output of an earlier call
\* (the same path, the same compiler) writes nothing.
C3_SecondRunWritesNothing ==
  (fix /\ Returned /\ Len(results) >= 2
       /\ files[Len(results)] = files[Len(results) - 1]) => writes = 0

\* C4: no exception escapes the run, and a run that has ended has processed
\* every file of the list, whatever the outcome of each file was.
C4_RunCompletesFileList ==
  /\ pc # "crashed"
  /\ pc = "done" => Len(results) = Len(files)

\* C5: no temporary file is live once a compile check is left, on every exit
\* path, so none is live at the end of a file's processing or of the run.
C5_NoLiveTempFiles == tmp = {}

\* C6 as stated: an include line is kept iff the candidate without exactly that
\* line fails to compile, and removable iff that candidate compiles.
C6_PerLineClassification ==
  Classified =>
    \A i \in 1..Len(IncludeBlock(lines)) :
      LET inc == IncludeBlock(lines)[i] IN
        /\ inc \in Range(Kept(lines, needed)) <=> CandidateFails(inc)
        /\ inc \in Range(Removed(lines, needed)) <=> CandidatePasses(inc)

\* C6 amended: every include line is tried by the candidate without exactly that
\* line; a line is kept iff the candidate of some line of the block with the
\* same text fails, and removable iff the candidates of all the lines with its
\* text compile.
C6_PerTextClassification ==
  Classified =>
    LET block == IncludeBlock(lines)
        same(inc) == {j \in 1..Len(block) : block[j].text = inc.text}
    IN \A i \in 1..Len(block) :
         /\ CandidateFails(block[i]) \/ CandidatePasses(block[i])
         /\ block[i] \in Range(Kept(lines, needed))
              <=> \E j \in same(block[i]) : CandidateFails(block[j])
         /\ block[i] \in Range(Removed(lines, needed))
              <=> \A j \in same(block[i]) : CandidatePasses(block[j])

\* C6 witness: two lines of the block carry the same text, the candidate
\* without the one fails and the candidate without the other compiles.
C6_Witness ==
  /\ Classified
  /\ \E i, j \in 1..Len(IncludeBlock(lines)) :
       /\ IncludeBlock(lines)[i].text = IncludeBlock(lines)[j].text
       /\ CandidateFails(IncludeBlock(lines)[i])
       /\ CandidatePasses(IncludeBlock(lines)[j])

\* C7: the include lines of the rebuilt block are the distinct kept texts (each
\* with its line terminator), each once, in the order of first appearance.
C7_RebuiltBlockDistinctInOrder ==
  Rebuilt =>
    /\ \A i, j \in 1..Len(RebuiltIncludes) :
         i # j => RebuiltIncludes[i] # RebuiltIncludes[j]
    /\ Len(RebuiltIncludes) = Len(FirstAppearances(IncludeBlock(lines), keep_set))
    /\ \A i \in 1..Len(RebuiltIncludes) :
         RebuiltIncludes[i] = Terminated(FirstAppearances(IncludeBlock(lines), keep_set)[i])

\* C8: the rebuilt block is followed by one separator line when it is not empty
\* and a non-blank line follows the end of the original block, and by none in
\* every other case (an empty block, a block that runs to the end of the file).
C8_SeparatorRule ==
  Rebuilt =>
    Len(RebuiltRegion) - Len(RebuiltIncludes) =
      IF /\ RebuiltIncludes # <<>>
         /\ BlockEnd(lines) <= Len(lines)
         /\ ~IsBlank(lines[BlockEnd(lines)])
      THEN 1 ELSE 0

\* C9: a process_file call writes the file at most once, and only in rewrite
\* mode, for a file with an include block whose baseline compiled, with a
\* content the compiler accepted that differs from the original; without a
\* write the file on disk is what was read.
C9_WriteFrame ==
  HasRead =>
    /\ writes <= 1
    /\ writes = 1 =>
         /\ fix /\ HasBlock(lines) /\ input \in passed
         /\ Join(new_lines) \in passed
         /\ new_lines # lines /\ Join(new_lines) # input
         /\ disk[CurPath] = Join(new_lines)
    /\ writes = 0 => disk[CurPath] = input

\* C9 witness: a call in rewrite mode that wrote the file.
C9_Witness == Returned /\ fix /\ writes = 1 /\ outcome = "fix"

\* C10: once every removed include is restored the candidate is equivalent to
\* the original (the compiler accepts it, as it accepted the baseline), so the
\* repair loop cannot end without a compiling candidate.
C10_FullRestorationCompiles ==
  /\ (Rebuilt /\ keep_set = {IncludeBlock(lines)[i].text : i \in 1..Len(IncludeBlock(lines))})
       => Join(candidate_lines) \in passed
  /\ ~(Returned /\ outcome = "exhausted")
====
